---- MODULE Spec2Model ----
(***************************************************************************)
(* MAX6675 temperature acquisition (src/main.py).                          *)
(*                                                                         *)
(* The program is modelled statement group by statement group: pc names    *)
(* the place of the single thread in main.py.  Times are milliseconds, as  *)
(* returned by time.ticks_ms(); `now` is the true time, the program only   *)
(* ever sees ticks_ms(), which wraps at TICKS_PERIOD.  Temperatures are    *)
(* kept in quarter degrees: the stored value q stands for q * 0.25 C.      *)
(* elapsed_time is kept in milliseconds: the stored value e stands for     *)
(* e / 1000.0 seconds.                                                     *)
(***************************************************************************)
EXTENDS Integers, Sequences, FiniteSets, TLC

VARIABLES
    pc,            \* position of the program in main.py
    now,           \* true time in ms (environment)
    stdin,         \* lines typed by the operator and not yet read
    cs, sck,       \* levels of the chip-select and clock output pins
    so_word,       \* the 16 bits the converter shifts out on so during a read
    value, idx,    \* locals of MAX6675.read: accumulator and pulse counter
    temp,          \* result of sensor.read()
    t0, paused_time, pause_start, paused, sample_count,
    elapsed_time,  \* elapsed_time of the current iteration, in ms
    data,          \* list of <<elapsed_time, temp>>
    console,       \* the last line printed, as a tuple of its fields
    file,          \* content of the csv file, NoFile while it does not exist
    writes,        \* number of times the csv file was opened for writing
    stopped_by,    \* how the loop was left: "none", "quota", "quit", "interrupt"
    intr_pc,       \* where the KeyboardInterrupt hit
    reads,         \* number of read() calls that returned
    okReads,       \* number of read() calls that returned a temperature
    typed,         \* number of lines the operator has typed
    qIssued,       \* the operator typed q while the loop was active below quota
    dataAtQ,       \* data at the moment the first such q was typed
    g_start, g_pause_begin, g_paused_sum,   \* true-time pause bookkeeping
    g_expected,    \* true active time at the time stamp of this iteration
    g_elapsed      \* g_expected of every stored sample
vars == <<pc, now, stdin, cs, sck, so_word, value, idx, temp, t0, paused_time,
          pause_start, paused, sample_count, elapsed_time, data, console, file,
          writes, stopped_by, intr_pc, reads, okReads, typed, qIssued,
          dataAtQ,
          g_start, g_pause_begin, g_paused_sum, g_expected, g_elapsed>>

\* Python's None: -1, which no tick value, duration or temperature equals
None == -1
\* read_keyboard's None: no line was read
NoKey == <<"None">>
NoFile == <<"no file">>

-----------------------------------------------------------------------------
(* Program constants *)

SAMPLING_INTERVAL == 1
\* 180 in the source; the model runs the same loop with a small quota
TOTAL_SAMPLES == 2
PAUSE_POLL_MS == 100
NBITS == 16
FAULT_MASK == 4
STATUS_BITS == 3
\* period of time.ticks_ms() (2^30 on the MicroPython ports)
TICKS_PERIOD == 1073741824

(* Bounds of the model *)

\* the run is followed for MaxTime ms of true time
MaxTime == 3100
\* the operator types at most MaxTyped lines
MaxTyped == 2
\* a sleep lasts its nominal time or overruns by one poll interval
Overrun == {0, PAUSE_POLL_MS}

\* tick counter value at program start: the counter wraps 1.5 s into the run
BootTicks == {TICKS_PERIOD - 1500}
\* words the converter can shift out: 25.00 C, open thermocouple, 1023.75 C
Words == {800, 804, 32760}
\* lines the operator can type
Lines == {<<"p", "\n">>, <<"r", "\n">>, <<"q", "\n">>, <<"x", "\n">>}

-----------------------------------------------------------------------------
(* Library functions used by main.py *)

ticks_ms == now % TICKS_PERIOD

ticks_diff_NoWrap(a, b) == a - b

ticks_diff(a, b) ==
    ((a - b + TICKS_PERIOD \div 2) % TICKS_PERIOD) - TICKS_PERIOD \div 2

Whitespace == {" ", "\n", "\t", "\r"}

RECURSIVE lstrip(_)
lstrip(s) == IF s # <<>> /\ Head(s) \in Whitespace THEN lstrip(Tail(s)) ELSE s

RECURSIVE rstrip(_)
rstrip(s) ==
    IF s # <<>> /\ s[Len(s)] \in Whitespace
    THEN rstrip(SubSeq(s, 1, Len(s) - 1)) ELSE s

strip(s) == rstrip(lstrip(s))

\* the bit so.value() returns on pulse i (0-based) of a read: MSB first
so_value(w, i) == (w \div (2 ^ (NBITS - 1 - i))) % 2

-----------------------------------------------------------------------------
(* read_keyboard: the key returned and what is left on stdin *)

read_keyboard_Drain ==
    IF stdin # <<>> THEN [key |-> strip(Head(stdin)), rest |-> <<>>]
    ELSE [key |-> NoKey, rest |-> stdin]

read_keyboard ==
    IF stdin # <<>> THEN [key |-> strip(Head(stdin)), rest |-> Tail(stdin)]
    ELSE [key |-> NoKey, rest |-> stdin]

decode_FaultBit3(v) ==
    IF (v \div (2 * FAULT_MASK)) % 2 = 1 THEN None
    ELSE v \div (2 ^ STATUS_BITS)

(* MAX6675.read, lines 55-58: the temperature in quarter degrees, or None *)
decode(v) ==
    IF (v \div FAULT_MASK) % 2 = 1 THEN None
    ELSE v \div (2 ^ STATUS_BITS)

(* write_csv: "{:.3f},{:.2f}" of one sample, as <<s, ms, deg, hundredths>> *)
format_line(sample) ==
    <<sample[1] \div 1000, sample[1] % 1000,
      sample[2] \div 4, (sample[2] % 4) * 25>>

write_csv(d) ==
    <<"time_seconds,temperature_C">> \o [i \in 1..Len(d) |-> format_line(d[i])]

-----------------------------------------------------------------------------
ReadPcs == {"rd_sck_hi", "rd_sample", "rd_sck_lo", "rd_cs_high", "rd_decode"}
TryPcs == {"while", "poll", "branch", "rd_cs_low", "record", "sleep",
           "pause_sleep"} \cup ReadPcs

Init ==
    /\ pc = "while"
    /\ now \in BootTicks
    /\ stdin = <<>>
    /\ cs = 1
    /\ sck \in {0, 1}
    /\ so_word = 0
    /\ value = 0
    /\ idx = 0
    /\ temp = None
    /\ t0 = ticks_ms
    /\ paused_time = 0
    /\ pause_start = None
    /\ paused = FALSE
    /\ sample_count = 0
    /\ elapsed_time = 0
    /\ data = <<>>
    /\ console = <<"Presiona 'p' para pausar, 'r' para reanudar, 'q' para salir">>
    /\ file = NoFile
    /\ writes = 0
    /\ stopped_by = "none"
    /\ intr_pc = "none"
    /\ reads = 0
    /\ okReads = 0
    /\ typed = 0
    /\ qIssued = FALSE
    /\ dataAtQ = <<>>
    /\ g_start = now
    /\ g_pause_begin = None
    /\ g_paused_sum = 0
    /\ g_expected = 0
    /\ g_elapsed = <<>>

pinVars == <<cs, sck, so_word, value, idx>>
ghostTime == <<g_start, g_pause_begin, g_paused_sum, g_expected>>
envVars == <<stdin, typed, qIssued, dataAtQ>>
outVars == <<file, writes>>
timing == <<t0, paused_time, pause_start, paused>>

WhileTest_OffByOne ==
    /\ pc = "while"
    /\ IF sample_count <= TOTAL_SAMPLES
       THEN /\ pc' = "poll"
            /\ UNCHANGED <<console, stopped_by>>
       ELSE /\ pc' = "output"
            /\ console' = <<"STOP">>
            /\ stopped_by' = "quota"
    /\ UNCHANGED <<now, pinVars, temp, timing, sample_count, elapsed_time, data,
                   outVars, intr_pc, reads, okReads, envVars, ghostTime, g_elapsed>>

(* line 111: while sample_count < TOTAL_SAMPLES; line 147 when it fails *)
WhileTest ==
    /\ pc = "while"
    /\ IF sample_count < TOTAL_SAMPLES
       THEN /\ pc' = "poll"
            /\ UNCHANGED <<console, stopped_by>>
       ELSE /\ pc' = "output"
            /\ console' = <<"STOP">>
            /\ stopped_by' = "quota"
    /\ UNCHANGED <<now, pinVars, temp, timing, sample_count, elapsed_time, data,
                   outVars, intr_pc, reads, okReads, envVars, ghostTime, g_elapsed>>

command_QuitOnlyRunning(key, is_paused) ==
    IF key = <<"p">> /\ ~is_paused THEN "pause"
    ELSE IF key = <<"r">> /\ is_paused THEN "resume"
    ELSE IF key = <<"q">> /\ ~is_paused THEN "quit"
    ELSE "none"

command_RepeatPause(key, is_paused) ==
    IF key = <<"p">> THEN "pause"
    ELSE IF key = <<"r">> /\ is_paused THEN "resume"
    ELSE IF key = <<"q">> THEN "quit"
    ELSE "none"

(* the conditions of lines 115, 119 and 124, in the order they are tried *)
command(key, is_paused) ==
    IF key = <<"p">> /\ ~is_paused THEN "pause"
    ELSE IF key = <<"r">> /\ is_paused THEN "resume"
    ELSE IF key = <<"q">> THEN "quit"
    ELSE "none"

pause_duration_FromStart(pause_end) == ticks_diff(pause_end, t0)

(* lines 121-122: the length of the pause that ends at pause_end *)
pause_duration(pause_end) == ticks_diff(pause_end, pause_start)

(* lines 131-133: the elapsed time at time stamp t_now, in ms *)
active_elapsed(t_now) == ticks_diff(t_now, t0) - paused_time

HandleKey_NoPauseStart ==
    /\ pc = "poll"
    /\ LET rk == read_keyboard
           cmd == command(rk.key, paused)
       IN  /\ stdin' = rk.rest
           /\ IF cmd = "pause"
              THEN /\ paused' = TRUE
                   /\ console' = <<"PAUSED">>
                   /\ g_pause_begin' = now
                   /\ pc' = "branch"
                   /\ UNCHANGED <<pause_start, paused_time, stopped_by,
                                  g_paused_sum>>
              ELSE IF cmd = "resume"
              THEN /\ paused' = FALSE
                   /\ paused_time' = paused_time + pause_duration(ticks_ms)
                   /\ console' = <<"RESUMED">>
                   /\ g_paused_sum' = g_paused_sum + (now - g_pause_begin)
                   /\ pc' = "branch"
                   /\ UNCHANGED <<pause_start, stopped_by, g_pause_begin>>
              ELSE IF cmd = "quit"
              THEN /\ console' = <<"STOP">>
                   /\ stopped_by' = "quit"
                   /\ pc' = "output"
                   /\ UNCHANGED <<paused, paused_time, pause_start,
                                  g_pause_begin, g_paused_sum>>
              ELSE /\ pc' = "branch"
                   /\ UNCHANGED <<paused, paused_time, pause_start, console,
                                  stopped_by, g_pause_begin, g_paused_sum>>
    /\ UNCHANGED <<now, pinVars, temp, t0, sample_count, elapsed_time, data,
                   outVars, intr_pc, reads, okReads, typed, qIssued, dataAtQ,
                   g_start, g_expected, g_elapsed>>

(* lines 114-126: read_keyboard and the p / r / q commands *)
HandleKey ==
    /\ pc = "poll"
    /\ LET rk == read_keyboard
           cmd == command(rk.key, paused)
       IN  /\ stdin' = rk.rest
           /\ IF cmd = "pause"
              THEN /\ paused' = TRUE
                   /\ pause_start' = ticks_ms
                   /\ console' = <<"PAUSED">>
                   /\ g_pause_begin' = now
                   /\ pc' = "branch"
                   /\ UNCHANGED <<paused_time, stopped_by, g_paused_sum>>
              ELSE IF cmd = "resume"
              THEN /\ paused' = FALSE
                   /\ paused_time' = paused_time + pause_duration(ticks_ms)
                   /\ console' = <<"RESUMED">>
                   /\ g_paused_sum' = g_paused_sum + (now - g_pause_begin)
                   /\ pc' = "branch"
                   /\ UNCHANGED <<pause_start, stopped_by, g_pause_begin>>
              ELSE IF cmd = "quit"
              THEN /\ console' = <<"STOP">>
                   /\ stopped_by' = "quit"
                   /\ pc' = "output"
                   /\ UNCHANGED <<paused, paused_time, pause_start,
                                  g_pause_begin, g_paused_sum>>
              ELSE /\ pc' = "branch"
                   /\ UNCHANGED <<paused, paused_time, pause_start, console,
                                  stopped_by, g_pause_begin, g_paused_sum>>
    /\ UNCHANGED <<now, pinVars, temp, t0, sample_count, elapsed_time, data,
                   outVars, intr_pc, reads, okReads, typed, qIssued, dataAtQ,
                   g_start, g_expected, g_elapsed>>

Branch_IgnoresPause ==
    /\ pc = "branch"
    /\ elapsed_time' = active_elapsed(ticks_ms)
    /\ g_expected' = (now - g_start) - g_paused_sum
    /\ pc' = "rd_cs_low"
    /\ UNCHANGED <<now, pinVars, temp, timing, sample_count, data, console,
                   outVars, stopped_by, intr_pc, reads, okReads, envVars,
                   g_start, g_pause_begin, g_paused_sum, g_elapsed>>

(* lines 129-133: if not paused, take the time stamp of the iteration *)
Branch ==
    /\ pc = "branch"
    /\ IF ~paused
       THEN /\ elapsed_time' = active_elapsed(ticks_ms)
            /\ g_expected' = (now - g_start) - g_paused_sum
            /\ pc' = "rd_cs_low"
       ELSE /\ pc' = "pause_sleep"
            /\ UNCHANGED <<elapsed_time, g_expected>>
    /\ UNCHANGED <<now, pinVars, temp, timing, sample_count, data, console,
                   outVars, stopped_by, intr_pc, reads, okReads, envVars,
                   g_start, g_pause_begin, g_paused_sum, g_elapsed>>

readFrame == <<now, temp, timing, sample_count, elapsed_time, data, console,
               outVars, stopped_by, intr_pc, reads, okReads, envVars, ghostTime,
               g_elapsed>>

(* lines 45-47: chip select low, the converter latches a word, value = 0 *)
ReadCsLow ==
    /\ pc = "rd_cs_low"
    /\ cs' = 0
    /\ so_word' \in Words
    /\ value' = 0
    /\ idx' = 0
    /\ pc' = "rd_sck_hi"
    /\ UNCHANGED <<sck, readFrame>>

(* line 49 *)
ReadSckHigh ==
    /\ pc = "rd_sck_hi"
    /\ sck' = 1
    /\ pc' = "rd_sample"
    /\ UNCHANGED <<cs, so_word, value, idx, readFrame>>

ReadSample_LsbFirst ==
    /\ pc = "rd_sample"
    /\ value' = value + so_value(so_word, idx) * (2 ^ idx)
    /\ pc' = "rd_sck_lo"
    /\ UNCHANGED <<cs, sck, so_word, idx, readFrame>>

(* lines 50-52: value <<= 1; if so.value(): value |= 1 *)
ReadSample ==
    /\ pc = "rd_sample"
    /\ value' = IF so_value(so_word, idx) = 1 THEN 2 * value + 1 ELSE 2 * value
    /\ pc' = "rd_sck_lo"
    /\ UNCHANGED <<cs, sck, so_word, idx, readFrame>>

ReadSckLow_OneShort ==
    /\ pc = "rd_sck_lo"
    /\ sck' = 0
    /\ idx' = idx + 1
    /\ pc' = IF idx + 1 < NBITS - 1 THEN "rd_sck_hi" ELSE "rd_cs_high"
    /\ UNCHANGED <<cs, so_word, value, readFrame>>

(* line 53, and the for of line 48 *)
ReadSckLow ==
    /\ pc = "rd_sck_lo"
    /\ sck' = 0
    /\ idx' = idx + 1
    /\ pc' = IF idx + 1 < NBITS THEN "rd_sck_hi" ELSE "rd_cs_high"
    /\ UNCHANGED <<cs, so_word, value, readFrame>>

(* line 54 *)
ReadCsHigh ==
    /\ pc = "rd_cs_high"
    /\ cs' = 1
    /\ pc' = "rd_decode"
    /\ UNCHANGED <<sck, so_word, value, idx, readFrame>>

(* lines 55-58 and the assignment of line 135 *)
ReadReturn ==
    /\ pc = "rd_decode"
    /\ temp' = decode(value)
    /\ reads' = reads + 1
    /\ okReads' = IF decode(value) # None THEN okReads + 1 ELSE okReads
    /\ pc' = "record"
    /\ UNCHANGED <<now, pinVars, timing, sample_count, elapsed_time, data,
                   console, outVars, stopped_by, intr_pc, envVars, ghostTime,
                   g_elapsed>>

Record_CountsFault ==
    /\ pc = "record"
    /\ IF temp # None
       THEN /\ console' = <<"sample", elapsed_time, temp>>
            /\ data' = Append(data, <<elapsed_time, temp>>)
            /\ g_elapsed' = Append(g_elapsed, g_expected)
       ELSE /\ console' = <<"ERROR: Thermocouple disconnected">>
            /\ UNCHANGED <<data, g_elapsed>>
    /\ sample_count' = sample_count + 1
    /\ pc' = "sleep"
    /\ UNCHANGED <<now, pinVars, temp, timing, elapsed_time, outVars,
                   stopped_by, intr_pc, reads, okReads, envVars, ghostTime>>

Record_FaultBreaks ==
    /\ pc = "record"
    /\ IF temp # None
       THEN /\ console' = <<"sample", elapsed_time, temp>>
            /\ data' = Append(data, <<elapsed_time, temp>>)
            /\ sample_count' = sample_count + 1
            /\ g_elapsed' = Append(g_elapsed, g_expected)
            /\ pc' = "sleep"
       ELSE /\ console' = <<"ERROR: Thermocouple disconnected">>
            /\ pc' = "output"
            /\ UNCHANGED <<data, sample_count, g_elapsed>>
    /\ UNCHANGED <<now, pinVars, temp, timing, elapsed_time, outVars,
                   stopped_by, intr_pc, reads, okReads, envVars, ghostTime>>

Record_Streaming ==
    /\ pc = "record"
    /\ IF temp # None
       THEN /\ console' = <<"sample", elapsed_time, temp>>
            /\ data' = Append(data, <<elapsed_time, temp>>)
            /\ sample_count' = sample_count + 1
            /\ g_elapsed' = Append(g_elapsed, g_expected)
            /\ file' = write_csv(Append(data, <<elapsed_time, temp>>))
       ELSE /\ console' = <<"ERROR: Thermocouple disconnected">>
            /\ UNCHANGED <<data, sample_count, g_elapsed, file>>
    /\ pc' = "sleep"
    /\ UNCHANGED <<now, pinVars, temp, timing, elapsed_time, writes,
                   stopped_by, intr_pc, reads, okReads, envVars, ghostTime>>

(* lines 136-141 *)
Record ==
    /\ pc = "record"
    /\ IF temp # None
       THEN /\ console' = <<"sample", elapsed_time, temp>>
            /\ data' = Append(data, <<elapsed_time, temp>>)
            /\ sample_count' = sample_count + 1
            /\ g_elapsed' = Append(g_elapsed, g_expected)
       ELSE /\ console' = <<"ERROR: Thermocouple disconnected">>
            /\ UNCHANGED <<data, sample_count, g_elapsed>>
    /\ pc' = "sleep"
    /\ UNCHANGED <<now, pinVars, temp, timing, elapsed_time, outVars,
                   stopped_by, intr_pc, reads, okReads, envVars, ghostTime>>

sleepFrame == <<pinVars, temp, timing, sample_count, elapsed_time, data,
                console, outVars, stopped_by, intr_pc, reads, okReads, envVars,
                ghostTime, g_elapsed>>

Sleep_Returns ==
    /\ pc = "sleep"
    /\ \E j \in Overrun :
          /\ now + j - g_start <= MaxTime
          /\ now' = now + j
    /\ pc' = "while"
    /\ UNCHANGED sleepFrame

(* line 143: time.sleep(SAMPLING_INTERVAL) *)
Sleep ==
    /\ pc = "sleep"
    /\ \E j \in Overrun :
          /\ now + 1000 * SAMPLING_INTERVAL + j - g_start <= MaxTime
          /\ now' = now + 1000 * SAMPLING_INTERVAL + j
    /\ pc' = "while"
    /\ UNCHANGED sleepFrame

(* line 145: time.sleep(0.1) *)
PauseSleep ==
    /\ pc = "pause_sleep"
    /\ \E j \in Overrun :
          /\ now + PAUSE_POLL_MS + j - g_start <= MaxTime
          /\ now' = now + PAUSE_POLL_MS + j
    /\ pc' = "while"
    /\ UNCHANGED sleepFrame

(* lines 149-150: KeyboardInterrupt raised anywhere inside the try block *)
Interrupt ==
    /\ pc \in TryPcs
    /\ console' = <<"STOP">>
    /\ stopped_by' = "interrupt"
    /\ intr_pc' = pc
    /\ pc' = "output"
    /\ UNCHANGED <<now, pinVars, temp, timing, sample_count, elapsed_time, data,
                   outVars, reads, okReads, envVars, ghostTime, g_elapsed>>

Output_InsideTry ==
    /\ pc = "output"
    /\ IF data # <<>> /\ stopped_by # "interrupt"
       THEN /\ file' = write_csv(data)
            /\ writes' = writes + 1
            /\ console' = <<"CSV guardado como:">>
       ELSE /\ console' = <<"Sin datos para guardar.">>
            /\ UNCHANGED <<file, writes>>
    /\ pc' = "done"
    /\ UNCHANGED <<now, pinVars, temp, timing, sample_count, elapsed_time, data,
                   stopped_by, intr_pc, reads, okReads, envVars, ghostTime,
                   g_elapsed>>

Output_AlwaysWrites ==
    /\ pc = "output"
    /\ file' = write_csv(data)
    /\ writes' = writes + 1
    /\ console' = <<"CSV guardado como:">>
    /\ pc' = "done"
    /\ UNCHANGED <<now, pinVars, temp, timing, sample_count, elapsed_time, data,
                   stopped_by, intr_pc, reads, okReads, envVars, ghostTime,
                   g_elapsed>>

Output_FlushesPartial ==
    /\ pc = "output"
    /\ LET flushed == IF intr_pc = "record" /\ temp # None
                      THEN Append(data, <<elapsed_time, temp>>) ELSE data
       IN  /\ data' = flushed
           /\ IF flushed # <<>>
              THEN /\ file' = write_csv(flushed)
                   /\ writes' = writes + 1
                   /\ console' = <<"CSV guardado como:">>
              ELSE /\ console' = <<"Sin datos para guardar.">>
                   /\ UNCHANGED <<file, writes>>
    /\ pc' = "done"
    /\ UNCHANGED <<now, pinVars, temp, timing, sample_count, elapsed_time,
                   stopped_by, intr_pc, reads, okReads, envVars, ghostTime,
                   g_elapsed>>

(* lines 155-159 *)
Output ==
    /\ pc = "output"
    /\ IF data # <<>>
       THEN /\ file' = write_csv(data)
            /\ writes' = writes + 1
            /\ console' = <<"CSV guardado como:">>
       ELSE /\ console' = <<"Sin datos para guardar.">>
            /\ UNCHANGED <<file, writes>>
    /\ pc' = "done"
    /\ UNCHANGED <<now, pinVars, temp, timing, sample_count, elapsed_time, data,
                   stopped_by, intr_pc, reads, okReads, envVars, ghostTime, g_elapsed>>

(* the operator types a line on stdin while the loop runs *)
Type ==
    /\ pc \in TryPcs
    /\ typed < MaxTyped
    /\ \E line \in Lines :
          /\ stdin' = Append(stdin, line)
          /\ IF strip(line) = <<"q">> /\ ~qIssued /\ Len(data) < TOTAL_SAMPLES
             THEN qIssued' = TRUE /\ dataAtQ' = data
             ELSE UNCHANGED <<qIssued, dataAtQ>>
    /\ typed' = typed + 1
    /\ UNCHANGED <<pc, now, pinVars, temp, timing, sample_count, elapsed_time,
                   data, console, outVars, stopped_by, intr_pc, reads, okReads,
                   ghostTime, g_elapsed>>

Next ==
    \/ WhileTest
    \/ HandleKey
    \/ Branch
    \/ ReadCsLow
    \/ ReadSckHigh
    \/ ReadSample
    \/ ReadSckLow
    \/ ReadCsHigh
    \/ ReadReturn
    \/ Record
    \/ Sleep
    \/ PauseSleep
    \/ Interrupt
    \/ Output
    \/ Type

Spec == Init /\ [][Next]_vars

(* MAX6675.read at line 55, with any 16-bit word clocked in *)
InitDecode ==
    /\ pc = "rd_decode"
    /\ now \in BootTicks
    /\ stdin = <<>>
    /\ cs = 1
    /\ sck = 0
    /\ so_word \in 0..(2 ^ NBITS - 1)
    /\ value = so_word
    /\ idx = NBITS
    /\ temp = None
    /\ t0 = ticks_ms
    /\ paused_time = 0
    /\ pause_start = None
    /\ paused = FALSE
    /\ sample_count = 0
    /\ elapsed_time = 0
    /\ data = <<>>
    /\ console = <<"Presiona 'p' para pausar, 'r' para reanudar, 'q' para salir">>
    /\ file = NoFile
    /\ writes = 0
    /\ stopped_by = "none"
    /\ intr_pc = "none"
    /\ reads = 0
    /\ okReads = 0
    /\ typed = 0
    /\ qIssued = FALSE
    /\ dataAtQ = <<>>
    /\ g_start = now
    /\ g_pause_begin = None
    /\ g_paused_sum = 0
    /\ g_expected = 0
    /\ g_elapsed = <<>>

NextDecode == ReadReturn

SpecDecode == InitDecode /\ [][NextDecode]_vars

(* MAX6675.read after line 47, the converter shifting out any 16 bits *)
InitAssemble ==
    /\ pc = "rd_sck_hi"
    /\ now \in BootTicks
    /\ stdin = <<>>
    /\ cs = 0
    /\ sck = 0
    /\ so_word \in 0..(2 ^ NBITS - 1)
    /\ value = 0
    /\ idx = 0
    /\ temp = None
    /\ t0 = ticks_ms
    /\ paused_time = 0
    /\ pause_start = None
    /\ paused = FALSE
    /\ sample_count = 0
    /\ elapsed_time = 0
    /\ data = <<>>
    /\ console = <<"Presiona 'p' para pausar, 'r' para reanudar, 'q' para salir">>
    /\ file = NoFile
    /\ writes = 0
    /\ stopped_by = "none"
    /\ intr_pc = "none"
    /\ reads = 0
    /\ okReads = 0
    /\ typed = 0
    /\ qIssued = FALSE
    /\ dataAtQ = <<>>
    /\ g_start = now
    /\ g_pause_begin = None
    /\ g_paused_sum = 0
    /\ g_expected = 0
    /\ g_elapsed = <<>>

NextAssemble ==
    \/ ReadSckHigh
    \/ ReadSample
    \/ ReadSckLow
    \/ ReadCsHigh

SpecAssemble == InitAssemble /\ [][NextAssemble]_vars

(* The program under the scheduling it has: the single thread always takes *)
(* its next step, and a sleep always returns.  The run is followed exactly  *)
(* up to MaxTime; a sleep that ends later still returns, at the one time    *)
(* Horizon that stands for every later time, and from then on the reads     *)
(* are no longer counted.                                                   *)
Horizon == g_start + MaxTime + 1

sleep_until(d) == IF now + d - g_start <= MaxTime THEN now + d ELSE Horizon

(* line 143 *)
SleepFair ==
    /\ pc = "sleep"
    /\ \E j \in Overrun : now' = sleep_until(1000 * SAMPLING_INTERVAL + j)
    /\ pc' = "while"
    /\ UNCHANGED sleepFrame

(* line 145 *)
PauseSleepFair ==
    /\ pc = "pause_sleep"
    /\ \E j \in Overrun : now' = sleep_until(PAUSE_POLL_MS + j)
    /\ pc' = "while"
    /\ UNCHANGED sleepFrame

(* lines 55-58 and the assignment of line 135 *)
ReadReturnFair ==
    /\ pc = "rd_decode"
    /\ temp' = decode(value)
    /\ reads' = IF now = Horizon THEN reads ELSE reads + 1
    /\ okReads' = IF decode(value) # None /\ now # Horizon
                  THEN okReads + 1 ELSE okReads
    /\ pc' = "record"
    /\ UNCHANGED <<now, pinVars, timing, sample_count, elapsed_time, data,
                   console, outVars, stopped_by, intr_pc, envVars, ghostTime,
                   g_elapsed>>

Program ==
    \/ WhileTest
    \/ HandleKey
    \/ Branch
    \/ ReadCsLow
    \/ ReadSckHigh
    \/ ReadSample
    \/ ReadSckLow
    \/ ReadCsHigh
    \/ ReadReturnFair
    \/ Record
    \/ SleepFair
    \/ PauseSleepFair
    \/ Output

NextFair ==
    \/ Program
    \/ Interrupt
    \/ Type

SpecFair == Init /\ [][NextFair]_vars /\ WF_vars(Program)

-----------------------------------------------------------------------------
(* Properties *)

IsPrefix(a, b) == Len(a) <= Len(b) /\ SubSeq(b, 1, Len(a)) = a

\* a temperature returned by read() that line 138 has not stored: the program
\* is between lines 135 and 138, or was interrupted there
C1_InFlight ==
    /\ temp # None
    /\ \/ pc = "record"
       \/ stopped_by = "interrupt" /\ intr_pc = "record"

(* C1: quota termination.  The number of stored samples equals the number   *)
(* of reads that returned a temperature (a temperature that line 138 has    *)
(* not yet stored counted apart) and the counter of the loop, and never     *)
(* exceeds TOTAL_SAMPLES; an iteration starts only below the quota, and the *)
(* loop is left by the quota exactly with TOTAL_SAMPLES successful reads,   *)
(* however many reads returned a fault.                                     *)
C1_QuotaTermination ==
    /\ Len(data) <= TOTAL_SAMPLES
    /\ sample_count = Len(data)
    /\ okReads = Len(data) + (IF C1_InFlight THEN 1 ELSE 0)
    /\ reads >= okReads
    /\ pc \in (TryPcs \ {"while"}) => Len(data) < TOTAL_SAMPLES \/ pc = "sleep"
    /\ stopped_by = "quota" => okReads = TOTAL_SAMPLES /\ Len(data) = TOTAL_SAMPLES
    /\ stopped_by = "quit" => okReads < TOTAL_SAMPLES

C1_Witness ==
    /\ pc = "done"
    /\ stopped_by = "quota"
    /\ okReads = TOTAL_SAMPLES
    /\ reads > okReads

\* the statement of C2 as made: a q typed while the loop is active and below
\* the quota keeps the quota from ending the run
C2_AsClaimed == qIssued => stopped_by # "quota"

(* C2: quit short-circuit.  The iteration whose poll reads q, Running or    *)
(* Paused, leaves the loop at once, below the quota and without touching    *)
(* the samples; a q that is still unread does not stop the loop.  In every  *)
(* case the samples stored when q was typed are a prefix of the sequence    *)
(* the output step gets, and are written when there are any.                *)
C2_QuitShortCircuit ==
    /\ [](/\ stopped_by = "quit" => sample_count < TOTAL_SAMPLES /\ qIssued
          /\ qIssued /\ pc \in {"output", "done"} => IsPrefix(dataAtQ, data)
          /\ qIssued /\ pc = "done" /\ dataAtQ # <<>> =>
                 /\ Len(file) = Len(data) + 1
                 /\ \A i \in 1..Len(dataAtQ) : file[i + 1] = format_line(dataAtQ[i]))
    /\ [][(/\ pc = "poll"
           /\ pc' # "poll"
           /\ stopped_by' # "interrupt"
           /\ stdin # <<>>
           /\ strip(Head(stdin)) = <<"q">>)
          => (pc' = "output" /\ stopped_by' = "quit" /\ data' = data
              /\ stdin' = Tail(stdin))]_vars

C2_Witness ==
    /\ pc = "done"
    /\ stopped_by = "quit"
    /\ paused
    /\ data # <<>>
    /\ dataAtQ = data
    /\ file # NoFile

C4_MonotonicElapsed ==
    \A i \in 1..(Len(data) - 1) : data[i][1] <= data[i + 1][1]

\* two samples with a fault read and a completed pause between them
C4_Witness ==
    /\ pc = "sleep"
    /\ console[1] = "sample"
    /\ Len(data) = 2
    /\ data[1][1] = 0
    /\ reads = 3
    /\ g_paused_sum > 0

(* C5: bit decode.  read() returns None exactly for the words with bit 2    *)
(* set; for a word w with bit 2 clear it returns the temperature of         *)
(* w >> 3 quarter degrees.                                                  *)
C5_BitDecode ==
    pc = "record" =>
        IF value % 8 >= 4
        THEN temp = None
        ELSE /\ temp # None
             /\ 8 * temp <= value
             /\ value < 8 * temp + 8

\* a word with bit 2 clear and the two bits below it set
C5_Witness ==
    /\ pc = "record"
    /\ value = 32763
    /\ temp = 4095

(* C6: external interrupt.  A KeyboardInterrupt can hit at every place of   *)
(* the loop; it takes the program to the output step without changing the   *)
(* samples, no sample is added or lost afterwards, and the output step      *)
(* writes all of them when there are any.                                   *)
C6_Interrupt ==
    /\ [](/\ pc \in TryPcs => ENABLED Interrupt
          /\ stopped_by = "interrupt" => pc \in {"output", "done"}
          /\ stopped_by = "interrupt" /\ pc = "done" /\ data # <<>> =>
                 /\ Len(file) = Len(data) + 1
                 /\ \A i \in 1..Len(data) : file[i + 1] = format_line(data[i]))
    /\ [][stopped_by' = "interrupt" => data' = data]_vars

\* interrupted in the middle of a read, one sample stored before, written
C6_Witness ==
    /\ pc = "done"
    /\ stopped_by = "interrupt"
    /\ intr_pc = "rd_sample"
    /\ paused = FALSE
    /\ Len(data) = 1
    /\ file # NoFile

(* C7: a sensor fault does not end the loop.  The iteration whose read      *)
(* returned None prints the warning, leaves the samples, the counter and    *)
(* the run state alone and goes on to the sleep of SAMPLING_INTERVAL        *)
(* seconds, after which the loop test passes.                               *)
C7_FaultContinues ==
    /\ [][(pc = "record" /\ temp = None /\ pc' # pc /\ stopped_by' # "interrupt")
          => (/\ console' = <<"ERROR: Thermocouple disconnected">>
              /\ data' = data
              /\ sample_count' = sample_count
              /\ ~paused'
              /\ pc' = "sleep")]_vars
    /\ [][(pc = "sleep" /\ pc' # pc /\ stopped_by' # "interrupt")
          => (/\ pc' = "while"
              /\ now' - now >= 1000 * SAMPLING_INTERVAL)]_vars
    /\ [](pc = "while" /\ console = <<"ERROR: Thermocouple disconnected">>
          => sample_count < TOTAL_SAMPLES)

\* the iteration after a fault read has started
C7_Witness ==
    /\ pc = "poll"
    /\ console = <<"ERROR: Thermocouple disconnected">>
    /\ reads > okReads
    /\ ~paused

(* C8: no-data path.  A run that ends with no stored sample writes no file  *)
(* and prints the message instead; a run that ends with a stored sample     *)
(* has written the file.                                                    *)
C8_NoDataPath ==
    pc = "done" =>
        /\ data = <<>> =>
               /\ file = NoFile
               /\ writes = 0
               /\ console = <<"Sin datos para guardar.">>
        /\ data # <<>> =>
               /\ file # NoFile
               /\ writes = 1

\* only fault reads before the quit
C8_Witness ==
    /\ pc = "done"
    /\ stopped_by = "quit"
    /\ reads >= 1
    /\ data = <<>>
    /\ file = NoFile

(* C9: deferred single write.  The file is written at most once, by the     *)
(* output step after the loop was left; it holds the header and then, in    *)
(* the order of the list, one line per stored sample with its values.       *)
C9_DeferredSingleWrite ==
    /\ writes <= 1
    /\ pc # "done" => file = NoFile /\ writes = 0
    /\ file # NoFile =>
           /\ writes = 1
           /\ file[1] = "time_seconds,temperature_C"
           /\ Len(file) = Len(data) + 1
           /\ \A i \in 1..Len(data) :
                  /\ file[i + 1][2] \in 0..999
                  /\ 1000 * file[i + 1][1] + file[i + 1][2] = data[i][1]
                  /\ 100 * file[i + 1][3] + file[i + 1][4] = 25 * data[i][2]

\* two different samples written
C9_Witness ==
    /\ pc = "done"
    /\ Len(file) = 3
    /\ file[2] # file[3]
    /\ writes = 1

(* C10: chip select idles high.  Whenever read() is not executing the chip  *)
(* select pin is high, so every call of read() starts with it high.         *)
C10_AsClaimed ==
    /\ pc \notin ReadPcs => cs = 1
    /\ pc = "rd_cs_low" => cs = 1


\* the poll of this step reads a line that is no valid command in the
\* current run state: p while paused, r while running, or another token
C11_InvalidRead ==
    /\ pc = "poll"
    /\ pc' # pc
    /\ stopped_by' # "interrupt"
    /\ stdin # <<>>
    /\ LET key == strip(Head(stdin))
       IN  \/ key = <<"p">> /\ paused
           \/ key = <<"r">> /\ ~paused
           \/ key \notin {<<"p">>, <<"r">>, <<"q">>}

\* the poll of this step finds no line
C11_NothingRead ==
    /\ pc = "poll"
    /\ pc' # pc
    /\ stopped_by' # "interrupt"
    /\ stdin = <<>>

\* what a poll without a command does: nothing but going on to line 129
C11_NoEffect ==
    /\ pc' = "branch"
    /\ UNCHANGED <<now, pinVars, temp, timing, sample_count, elapsed_time,
                   data, console, outVars, stopped_by, reads, okReads>>

(* C11: invalid commands are no-ops.  A poll that reads p while paused, r   *)
(* while running or a token other than p, r, q leaves the run state, the    *)
(* paused duration and the pause start as they are, and the iteration goes  *)
(* on exactly as after a poll that found no line.                           *)
C11_InvalidNoOp ==
    /\ [][C11_InvalidRead => (C11_NoEffect /\ stdin' = Tail(stdin))]_vars
    /\ [][C11_NothingRead => (C11_NoEffect /\ stdin' = stdin)]_vars

\* a second line was read while paused, after the iteration that paused, and
\* it was neither r nor q
C11_Witness ==
    /\ pc = "branch"
    /\ paused
    /\ typed = 2
    /\ stdin = <<>>
    /\ now > g_pause_begin
    /\ console = <<"PAUSED">>

(* C12: paused iterations are inert.  While paused the program is never     *)
(* inside read() nor at the sample accounting; an iteration that is paused  *)
(* after its command handling goes to the short sleep and back to the loop  *)
(* test without a read, without touching the clock and chip-select pins     *)
(* and without changing the samples or the counter.                         *)
C12_PausedInert ==
    /\ [](paused => pc \in {"while", "poll", "branch", "pause_sleep",
                           "output", "done"})
    /\ [][(paused' /\ pc \in {"poll", "branch", "pause_sleep"} /\ pc' # pc
           /\ stopped_by' = "none")
          => (/\ pc' = (IF pc = "poll" THEN "branch"
                        ELSE IF pc = "branch" THEN "pause_sleep"
                        ELSE "while")
              /\ UNCHANGED <<cs, sck, value, idx, temp, reads, okReads, data,
                             sample_count>>)]_vars

\* a paused iteration is over: the pause began in an earlier iteration
C12_Witness ==
    /\ pc = "while"
    /\ paused
    /\ now > g_pause_begin
    /\ reads >= 1
    /\ cs = 1


\* a step of the program itself, not the interrupt
C13_ProgramStep == pc' # pc /\ stopped_by' # "interrupt"

(* C13: command polling discipline.  Every iteration starts with the poll,  *)
(* which never waits for input, and read() is only entered after the poll   *)
(* of the same iteration; the poll takes the first pending line off stdin,  *)
(* or nothing, and outside the poll the pending lines stay where they are,  *)
(* new lines being queued behind them.                                      *)
C13_PollingDiscipline ==
    /\ [](pc = "poll" => ENABLED HandleKey)
    /\ [][(pc = "while" /\ C13_ProgramStep) => pc' \in {"poll", "output"}]_vars
    /\ [][(pc' = "branch" /\ pc' # pc) => pc = "poll"]_vars
    /\ [][(pc' = "rd_cs_low" /\ pc' # pc) => pc = "branch"]_vars
    /\ [][(pc = "poll" /\ C13_ProgramStep)
          => stdin' = (IF stdin = <<>> THEN <<>> ELSE Tail(stdin))]_vars
    /\ [][(pc # "poll" \/ ~C13_ProgramStep) => IsPrefix(stdin, stdin')]_vars

\* the poll of this iteration read p, and r is still pending behind it
C13_Witness ==
    /\ pc = "branch"
    /\ paused
    /\ now = g_pause_begin
    /\ typed = 2
    /\ stdin = << <<"r", "\n">> >>


(* C14: immediate stop on quit.  The step that reads q, running or paused,  *)
(* goes straight to the output step: no read, no sample, no sleep.  Once    *)
(* the loop is left, by the quota, by q or by the interrupt, no read() is   *)
(* started or continued, the pins stay as they are and no sample is added.  *)
C14_ImmediateStop ==
    /\ [][(stopped_by = "none" /\ stopped_by' = "quit")
          => (/\ pc = "poll"
              /\ pc' = "output"
              /\ UNCHANGED <<now, pinVars, temp, reads, okReads, data,
                             sample_count>>)]_vars
    /\ [][stopped_by # "none"
          => (/\ pc' \in {"output", "done"}
              /\ UNCHANGED <<now, pinVars, temp, reads, okReads, data,
                             sample_count, stopped_by>>)]_vars
    /\ [](pc \in {"output", "done"} <=> stopped_by # "none")

\* q read while paused, one poll interval after the pause began, with one
\* sample stored before
C14_Witness ==
    /\ pc = "done"
    /\ stopped_by = "quit"
    /\ paused
    /\ reads = 1
    /\ Len(data) = 1
    /\ now = g_pause_begin + PAUSE_POLL_MS


C16_ReadProtocol ==
    /\ [](pc \in {"rd_sck_hi", "rd_sample", "rd_sck_lo", "rd_cs_high"} => cs = 0)
    /\ [](pc = "rd_sck_hi" => idx < NBITS /\ (idx > 0 => sck = 0))
    /\ [](pc \in {"rd_sample", "rd_sck_lo"} => idx < NBITS /\ sck = 1)
    /\ [](pc \in {"rd_cs_high", "rd_decode"} => idx = NBITS /\ sck = 0)
    /\ [](pc = "record" => idx = NBITS /\ sck = 0 /\ cs = 1)
    /\ [][sck' # sck => (cs = 0 /\ cs' = 0)]_vars
    /\ [][cs' # cs => \/ pc = "rd_cs_low" /\ cs' = 0 /\ idx' = 0
                      \/ pc = "rd_cs_high" /\ cs' = 1 /\ idx = NBITS]_vars
    /\ [][idx' # idx => \/ pc = "rd_cs_low" /\ idx' = 0
                        \/ idx' = idx + 1 /\ sck = 1 /\ sck' = 0]_vars
    /\ [][(pc = "rd_sample" /\ pc' # pc /\ stopped_by' # "interrupt")
          => (pc' = "rd_sck_lo" /\ sck = 1 /\ sck' = 1 /\ idx' = idx)]_vars
    /\ [][value' # value => pc \in {"rd_cs_low", "rd_sample"}]_vars

\* a second read has returned
C16_Witness ==
    /\ pc = "record"
    /\ reads = 2
    /\ idx = NBITS
    /\ value = 32760
    /\ cs = 1
    /\ sck = 0


\* the first k bits sampled in a read of word w, the bit of pulse i weighted
\* with 2^(n-1-i)
RECURSIVE C17_Weighted(_, _, _)
C17_Weighted(w, k, n) ==
    IF k = 0 THEN 0
    ELSE C17_Weighted(w, k - 1, n) + so_value(w, k - 1) * (2 ^ (n - k))

\* the number of bits sampled so far in the read
C17_Sampled == IF pc = "rd_sck_lo" THEN idx + 1 ELSE idx

(* C17: MSB-first assembly.  After k sampled bits value is the sum of       *)
(* b_i * 2^(k-1-i); so the word read() assembles from the 16 bits is the    *)
(* sum of b_i * 2^(15-i), the first bit at bit 15 and the last at bit 0,    *)
(* and it fits in 16 bits.                                                  *)
C17_MsbFirst ==
    /\ pc \in ReadPcs =>
           /\ value = C17_Weighted(so_word, C17_Sampled, C17_Sampled)
           /\ value < 2 ^ C17_Sampled
    /\ pc \in {"rd_cs_high", "rd_decode"} =>
           /\ value = C17_Weighted(so_word, NBITS, NBITS)
           /\ value \in 0..(2 ^ NBITS - 1)
           /\ value \div (2 ^ (NBITS - 1)) = so_value(so_word, 0)
           /\ value % 2 = so_value(so_word, NBITS - 1)

\* 1010 0000 0000 0010 assembled: first bit sampled 1, last 0
C17_Witness ==
    /\ pc = "rd_decode"
    /\ so_value(so_word, 0) = 1
    /\ so_value(so_word, NBITS - 1) = 0
    /\ value = 40962


(* C18: magnitude range.  For every 16-bit word with bit 2 clear the        *)
(* temperature read() returns is a 12-bit number of quarter degrees,        *)
(* 0..4095, that is a multiple of 0.25 between 0 and 1023.75.               *)
C18_AsClaimed ==
    (pc = "record" /\ value \in 0..(2 ^ NBITS - 1) /\ value % 8 < 4)
        => temp \in 0..4095


(* C19: strict ordering.  The elapsed times of adjacent stored samples      *)
(* strictly increase, by at least the sampling interval, also when a pause  *)
(* and its resume lie between them and the second sample is read in the     *)
(* iteration that reads r.                                                  *)
C19_StrictOrdering ==
    \A i \in 1..(Len(data) - 1) :
        /\ data[i][1] < data[i + 1][1]
        /\ data[i + 1][1] - data[i][1] >= 1000 * SAMPLING_INTERVAL

\* the second sample was read in the iteration that read r, the pause having
\* begun right after the sleep that followed the first sample
C19_Witness ==
    /\ pc = "sleep"
    /\ console[1] = "sample"
    /\ Len(data) = 2
    /\ reads = 2
    /\ g_paused_sum > 0
    /\ g_pause_begin + g_paused_sum = now
    /\ data[2][1] = data[1][1] + 1000 * SAMPLING_INTERVAL


\* the statement of C20 as made: every run reaches the output step and ends
C20_AsClaimed == <>(pc = "done")


(* C20: termination.  The loop is left, and the output step is taken and    *)
(* finished, in every run in which the sample count reaches the quota, a q  *)
(* is read or the interrupt arrives, and only in those runs: the output     *)
(* step is never reached without one of the three.  A run in which none of  *)
(* them happens, the sensor reporting a fault at every read or the          *)
(* controller staying paused, stays in the loop.                            *)
C20_Termination ==
    /\ (sample_count = TOTAL_SAMPLES \/ stopped_by # "none") ~> (pc = "done")
    /\ [](pc \in {"output", "done"} =>
            /\ stopped_by \in {"quota", "quit", "interrupt"}
            /\ stopped_by = "quota" => sample_count = TOTAL_SAMPLES)
    /\ [](sample_count <= TOTAL_SAMPLES)

\* the quota ended a run that had a faulted read and a pause in it
C20_Witness ==
    /\ pc = "done"
    /\ stopped_by = "quota"
    /\ sample_count = TOTAL_SAMPLES
    /\ reads > okReads
    /\ g_paused_sum > 0

====
